---- MODULE Spec2Model ----
(***************************************************************************)
(* A model of the library management system: a CSV table file with a      *)
(* header row, its backup file, and the DAO operations that scan or        *)
(* rewrite the table file (src/dao.py, src/utils.py, src/config.py).       *)
(*                                                                         *)
(* A string is a sequence of one-character strings, so that str.lower(),   *)
(* str.strip() and str(int) are computed character by character.  A CSV    *)
(* file is the sequence of its rows, each row the sequence of its fields   *)
(* as csv.reader returns them; every row csv.writer writes ends in one     *)
(* line terminator, and no field holds a newline (utils.py:8-9).           *)
(* Positions are 1-based here and 0-based in the source.  The Cyrillic     *)
(* status literals of config.py are transliterated to ASCII.               *)
(***************************************************************************)
EXTENDS Integers, Sequences, FiniteSets, TLC

VARIABLES
    db_file,      \* content of the table file: [exists, rows]
    backup_file,  \* content of the backup file: [exists, rows]
    dao,          \* TRUE once a LibraryManagementSystem object was constructed
    call,         \* the last operation called and its arguments
    pre,          \* db_file and backup_file as they were when it was called
    out,          \* what the last operation reported: log message, logged rows
    history,      \* the rows inserted since Open, and whether a delete or a
                  \* modify was called since
    commands,     \* the number of commands run after Open (counted in SpecMig)
    writer        \* per process: the rewrite in progress and its staging file

vars == <<db_file, backup_file, dao, call, pre, out, history, commands, writer>>

-----------------------------------------------------------------------------
(* Bounds of the model *)

\* Insert is not called once the table file holds this many lines.
MaxLines == 3

-----------------------------------------------------------------------------
(* config.py *)

TABLE_FIELDS ==
    << <<"i","d">>,
       <<"t","i","t","l","e">>,
       <<"a","u","t","h","o","r">>,
       <<"y","e","a","r">>,
       <<"s","t","a","t","u","s">> >>

USERS_FILTERS ==
    << <<"t","i","t","l","e">>,
       <<"a","u","t","h","o","r">>,
       <<"y","e","a","r">> >>

BOOKS_STATUSES ==
    << <<"v"," ","n","a","l","i","c","h","i","i">>,
       <<"v","y","d","a","n","a">> >>

-----------------------------------------------------------------------------
(* Python built-ins the code uses *)

Range(s) == { s[i] : i \in DOMAIN s }

\* list.index / tuple.index: the first position holding x (1-based).
index(s, x) == CHOOSE i \in DOMAIN s : s[i] = x /\ \A j \in 1..(i-1) : s[j] # x

ascii_uppercase ==
    <<"A","B","C","D","E","F","G","H","I","J","K","L","M",
      "N","O","P","Q","R","S","T","U","V","W","X","Y","Z">>

ascii_lowercase ==
    <<"a","b","c","d","e","f","g","h","i","j","k","l","m",
      "n","o","p","q","r","s","t","u","v","w","x","y","z">>

whitespace == {" ", "\t", "\n", "\r"}

\* str.lower()
lower(s) ==
    [i \in DOMAIN s |->
        IF s[i] \in Range(ascii_uppercase)
        THEN ascii_lowercase[index(ascii_uppercase, s[i])]
        ELSE s[i]]

RECURSIVE lstrip(_)
lstrip(s) ==
    IF s # <<>> /\ Head(s) \in whitespace THEN lstrip(Tail(s)) ELSE s

RECURSIVE rstrip(_)
rstrip(s) ==
    IF s # <<>> /\ s[Len(s)] \in whitespace
    THEN rstrip(SubSeq(s, 1, Len(s) - 1))
    ELSE s

\* str.strip()
strip(s) == rstrip(lstrip(s))

digits == <<"0","1","2","3","4","5","6","7","8","9">>

\* str(int) of a non-negative int, as csv.writer writes book_id.
RECURSIVE str(_)
str(n) ==
    IF n < 10 THEN << digits[n + 1] >>
    ELSE str(n \div 10) \o << digits[(n % 10) + 1] >>

\* list.remove(x): drops the first element equal to x.
remove(s, x) ==
    LET k == index(s, x)
    IN  SubSeq(s, 1, k - 1) \o SubSeq(s, k + 1, Len(s))

-----------------------------------------------------------------------------
(* Files *)

NoFile == [exists |-> FALSE, rows |-> <<>>]
File(rows) == [exists |-> TRUE, rows |-> rows]

\* The data rows of a table file: every row after the first line, which the
\* readers skip as the header (dao.py:151, dao.py:202).
DataRows(f) == IF Len(f.rows) = 0 THEN <<>> ELSE Tail(f.rows)

-----------------------------------------------------------------------------
(* utils.py *)

\* count_rows counting the data rows only, the header line left out.
count_rows_without_header(f) == IF Len(f.rows) = 0 THEN 0 ELSE Len(f.rows) - 1

\* The number of line terminators in the file: one per row written.
count_rows(f) == Len(f.rows)

\* generate_db creating the file without writing the header row.
generate_db_empty(f, header) == File(f.rows)

\* Opens the file for append (creating it) and writes the header row.
generate_db(f, header) == File(f.rows \o << header >>)

-----------------------------------------------------------------------------
(* dao.py: backup, restore, migration *)

\* create_backup that leaves a backup file that is already there.
create_backup_keeping(db, bak) == IF bak.exists \/ ~db.exists THEN bak ELSE db

\* copy(db_file, backup_file); a failed copy is logged and leaves the backup.
create_backup(db, bak) == IF db.exists THEN db ELSE bak

\* copy(backup_file, db_file) when the backup exists, else a warning.
restore_backup(db, bak) == IF bak.exists THEN bak ELSE db

\* migrate_row copying by position, as if the columns had not moved.
migrate_row_by_position(row, old_header) ==
    [i \in DOMAIN TABLE_FIELDS |->
        IF TABLE_FIELDS[i] \in Range(old_header) /\ i <= Len(row)
        THEN row[i]
        ELSE <<>>]

\* One row rebuilt in the order of TABLE_FIELDS from its old positions.
migrate_row(row, old_header) ==
    [i \in DOMAIN TABLE_FIELDS |->
        IF TABLE_FIELDS[i] \in Range(old_header)
        THEN row[index(old_header, TABLE_FIELDS[i])]
        ELSE <<>>]

\* row[old_header.index(field)] raises IndexError on a row shorter than that.
migrate_row_raises(row, old_header) ==
    \E i \in DOMAIN TABLE_FIELDS :
        /\ TABLE_FIELDS[i] \in Range(old_header)
        /\ index(old_header, TABLE_FIELDS[i]) > Len(row)

\* migrate when the file operations named in faults raise: "backup" the
\* copy of create_backup (logged, the backup file stays as it was),
\* "staging" the creation or the writing of the temporary file, "move" the
\* move of the temporary file over the table file.  The last two, like an
\* IndexError on a short row, end in restore_backup.
migrate_with(db, bak, old_header, faults) ==
    LET saved == IF "backup" \in faults THEN bak ELSE create_backup(db, bak)
        old   == DataRows(db)
    IN  IF \/ "staging" \in faults
           \/ "move" \in faults
           \/ \E k \in DOMAIN old : migrate_row_raises(old[k], old_header)
        THEN [db  |-> restore_backup(db, saved),
              bak |-> saved,
              log |-> "migration failed",
              migrations |-> 1]
        ELSE [db  |-> File(<< TABLE_FIELDS >> \o
                           [k \in DOMAIN old |-> migrate_row(old[k], old_header)]),
              bak |-> saved,
              log |-> "migration done",
              migrations |-> 1]

migrate(db, bak, old_header) == migrate_with(db, bak, old_header, {})

\* check_for_migration taking the header of a file without lines as the
\* empty list, instead of next(reader) raising StopIteration.
check_for_migration_empty_header(db, bak, faults) ==
    IF ~db.exists
    THEN [db |-> db, bak |-> bak, log |-> "failed to check for migration",
          migrations |-> 0]
    ELSE IF Len(db.rows) >= 1 /\ db.rows[1] = TABLE_FIELDS
    THEN [db |-> db, bak |-> bak, log |-> "no migration required",
          migrations |-> 0]
    ELSE migrate_with(db, bak, IF Len(db.rows) >= 1 THEN db.rows[1] ELSE << >>,
                      faults)

\* check_for_migration comparing the headers as sets of names.
check_for_migration_unordered(db, bak, faults) ==
    IF ~db.exists \/ Len(db.rows) = 0
    THEN [db |-> db, bak |-> bak, log |-> "failed to check for migration",
          migrations |-> 0]
    ELSE IF Range(db.rows[1]) = Range(TABLE_FIELDS)
    THEN [db |-> db, bak |-> bak, log |-> "no migration required",
          migrations |-> 0]
    ELSE migrate_with(db, bak, db.rows[1], faults)

check_for_migration_with(db, bak, faults) ==
    IF ~db.exists \/ Len(db.rows) = 0
    THEN [db |-> db, bak |-> bak, log |-> "failed to check for migration",
          migrations |-> 0]
    ELSE IF db.rows[1] = TABLE_FIELDS
    THEN [db |-> db, bak |-> bak, log |-> "no migration required",
          migrations |-> 0]
    ELSE migrate_with(db, bak, db.rows[1], faults)

check_for_migration(db, bak) == check_for_migration_with(db, bak, {})

\* __init__ without the check of exists(filename): generate_db appends the
\* header to whatever the file holds.
init_without_exists_check(db, bak, faults) ==
    [db |-> generate_db(db, TABLE_FIELDS), bak |-> bak, log |-> "generated",
     migrations |-> 0]

\* LibraryManagementSystem.__init__
init_with(db, bak, faults) ==
    IF ~db.exists
    THEN [db |-> generate_db(db, TABLE_FIELDS), bak |-> bak, log |-> "generated",
          migrations |-> 0]
    ELSE check_for_migration_with(db, bak, faults)

init(db, bak) == init_with(db, bak, {})

-----------------------------------------------------------------------------
(* dao.py: reading *)

\* select_all without the [1:] that drops the header line.
select_all_with_header(f) ==
    IF ~f.exists
    THEN [log |-> "not found", books |-> <<>>]
    ELSE [log |-> "books found", books |-> f.rows]

select_all(f) ==
    IF ~f.exists
    THEN [log |-> "not found", books |-> <<>>]
    ELSE [log |-> "books found", books |-> DataRows(f)]

\* The filters that are USERS_FILTERS, in the order they were passed.
actual_filters(filters) ==
    SelectSeq(filters, LAMBDA p : p.key \in Range(USERS_FILTERS))

\* The scan of the first filter: the rows after the header whose column col
\* equals value after lowercasing both.  A missing or empty file and a row
\* too short for col end the scan with an error that is logged; the rows
\* appended before it stay in the list.
scan(f, col, value) ==
    LET short == { i \in 2..Len(f.rows) : Len(f.rows[i]) < col }
        last  == IF short = {} THEN Len(f.rows)
                 ELSE (CHOOSE i \in short : \A j \in short : i <= j) - 1
    IN  SelectSeq(SubSeq(f.rows, 2, last),
                  LAMBDA row : lower(row[col]) = lower(value))

\* for book in filtered_books: ... filtered_books.remove(book)
\* The list iterator holds a position i into the list being shortened.
RECURSIVE narrow(_, _, _, _)
narrow(st, i, col, value) ==
    IF st.raised \/ i > Len(st.books) THEN st
    ELSE IF Len(st.books[i]) < col
    THEN [st EXCEPT !.raised = TRUE]
    ELSE IF lower(st.books[i][col]) # lower(value)
    THEN narrow([st EXCEPT !.books = remove(st.books, st.books[i])],
                i + 1, col, value)
    ELSE narrow(st, i + 1, col, value)

\* for key in actual_filters.keys(): scan when the list is empty, else narrow.
RECURSIVE apply_filters(_, _, _, _)
apply_filters(f, flt, k, st) ==
    IF st.raised \/ k > Len(flt) THEN st
    ELSE LET col == index(TABLE_FIELDS, flt[k].key)
         IN  IF Len(st.books) = 0
             THEN apply_filters(f, flt, k + 1,
                      [st EXCEPT !.books = scan(f, col, flt[k].value)])
             ELSE apply_filters(f, flt, k + 1,
                      narrow(st, 1, col, flt[k].value))

select(f, filters) ==
    LET st == apply_filters(f, actual_filters(filters), 1,
                            [books |-> <<>>, raised |-> FALSE])
    IN  IF st.raised
        THEN [log |-> "raised", books |-> <<>>]
        ELSE [log |-> "books found", books |-> st.books]

-----------------------------------------------------------------------------
(* dao.py: writing *)

\* The row insert builds, one value per field of TABLE_FIELDS.
new_row(book_id, title, author, year) ==
    [i \in DOMAIN TABLE_FIELDS |->
        CASE TABLE_FIELDS[i] = <<"i","d">>                 -> str(book_id)
          [] TABLE_FIELDS[i] = <<"t","i","t","l","e">>     -> title
          [] TABLE_FIELDS[i] = <<"a","u","t","h","o","r">> -> author
          [] TABLE_FIELDS[i] = <<"y","e","a","r">>         -> year
          [] TABLE_FIELDS[i] = <<"s","t","a","t","u","s">> ->
                 <<"v"," ","n","a","l","i","c","h","i","i">>
          [] OTHER                                         -> <<>>]

insert(f, title, author, year) ==
    IF ~f.exists
    THEN [db |-> f, log |-> "error"]
    ELSE [db  |-> File(f.rows \o << new_row(count_rows(f), title, author, year) >>),
          log |-> "inserted"]

\* Every row of the file is read, the first line included; a row without
\* the id column raises, and the temporary file is then never moved.
delete(f, book_id) ==
    LET id_field_index == index(TABLE_FIELDS, <<"i","d">>)
    IN  IF ~f.exists \/ \E i \in DOMAIN f.rows : Len(f.rows[i]) < id_field_index
        THEN [db |-> f, log |-> "error"]
        ELSE [db  |-> File(SelectSeq(f.rows,
                               LAMBDA row : row[id_field_index] # book_id)),
              log |-> IF \E i \in DOMAIN f.rows : f.rows[i][id_field_index] = book_id
                      THEN "deleted" ELSE "not found"]

\* The rewrite of modify (dao.py:329-356): the status column of every row
\* whose id column equals book_id becomes st, the first line included; a
\* row without the column raises and the temporary file is never moved.
rewrite_status(f, book_id, st) ==
    LET id_field_index == index(TABLE_FIELDS, <<"i","d">>)
        status_field_index == index(TABLE_FIELDS, <<"s","t","a","t","u","s">>)
        hit(row) == row[id_field_index] = book_id
    IN  IF \/ ~f.exists
           \/ \E i \in DOMAIN f.rows :
                 \/ Len(f.rows[i]) < id_field_index
                 \/ hit(f.rows[i]) /\ Len(f.rows[i]) < status_field_index
        THEN [db |-> f, log |-> "error"]
        ELSE [db  |-> File([i \in DOMAIN f.rows |->
                              IF hit(f.rows[i])
                              THEN [f.rows[i] EXCEPT ![status_field_index] = st]
                              ELSE f.rows[i]]),
              log |-> IF \E i \in DOMAIN f.rows : hit(f.rows[i])
                      THEN "modified" ELSE "not found"]

\* modify with the status written as the caller gave it.
modify_raw_status(f, book_id, status) ==
    IF lower(strip(status)) \notin Range(BOOKS_STATUSES)
    THEN [db |-> f, log |-> "status not available"]
    ELSE rewrite_status(f, book_id, status)

\* modify without the check of the status against BOOKS_STATUSES.
modify_unvalidated(f, book_id, status) ==
    rewrite_status(f, book_id, lower(strip(status)))

modify(f, book_id, status) ==
    LET st == lower(strip(status))
    IN  IF st \notin Range(BOOKS_STATUSES)
        THEN [db |-> f, log |-> "status not available"]
        ELSE rewrite_status(f, book_id, st)

\* delete and modify when a file operation of the rewrite raises ("staging":
\* the temporary file, "move": the move over the table file): the error is
\* logged and the table file is not replaced.  modify validates the status
\* before it touches a file.
delete_with(f, book_id, faults) ==
    IF faults # {} THEN [db |-> f, log |-> "error"] ELSE delete(f, book_id)

modify_with(f, book_id, status, faults) ==
    IF lower(strip(status)) \in Range(BOOKS_STATUSES) /\ faults # {}
    THEN [db |-> f, log |-> "error"]
    ELSE modify(f, book_id, status)

-----------------------------------------------------------------------------
(* Arguments the callers pass (main.py: run_cli, run_repl) *)

Titles  == { <<"W">> }
Authors == { <<"T">> }
Years   == { <<"1">>, <<"2">> }

\* Identifiers given to delete and modify: the decimal numbers insert can
\* have written, and the name of the identifier column.
Ids == { str(n) : n \in 1..(MaxLines - 1) } \cup { <<"i","d">> }

\* Statuses given to modify: padded and capitalized, normalized, unknown.
Statuses ==
    { <<" ","V","y","d","a","n","a">>,
      <<"v"," ","n","a","l","i","c","h","i","i">>,
      <<"l","o","s","t">> }

\* One entry of a filter mapping.
F(key, value) == [key |-> key, value |-> value]

\* Filter mappings given to select.  A mapping is a dict: distinct keys, in
\* the order they were passed.
FilterMaps ==
    { <<>>,
      << F(<<"t","i","t","l","e">>, <<"w">>) >>,
      << F(<<"t","i","t","l","e">>, <<"x">>) >>,
      << F(<<"y","e","a","r">>, <<"1">>) >>,
      << F(<<"t","i","t","l","e">>, <<"w">>), F(<<"y","e","a","r">>, <<"2">>) >>,
      << F(<<"t","i","t","l","e">>, <<"x">>), F(<<"y","e","a","r">>, <<"1">>) >>,
      << F(<<"s","t","a","t","u","s">>, <<"v","y","d","a","n","a">>),
         F(<<"y","e","a","r">>, <<"2">>), F(<<"a","u","t","h","o","r">>, <<"t">>) >> }

-----------------------------------------------------------------------------
(* The state machine *)

NoCall ==
    [op |-> "none", book_id |-> <<>>, status |-> <<>>, title |-> <<>>,
     author |-> <<>>, year |-> <<>>, filters |-> <<>>, faults |-> {}]

\* The processes that run the program.
Writers == {"p", "q"}

\* A process that is not in the middle of an operation.
\* call is its command, start the table file when the command began, header
\* the header line check_for_migration read, seen the table file as opened
\* for reading, pos the rows read of it (or the count of insert), temp the
\* temporary file, log the outcome.
Idle ==
    [pc |-> "idle", call |-> NoCall, start |-> NoFile, header |-> <<>>,
     seen |-> NoFile, pos |-> 0, temp |-> NoFile, log |-> "none"]

NoHistory ==
    [inserted |-> <<>>, deleted |-> FALSE, modified |-> FALSE, migrations |-> 0]

\* What is the same in the initial state of every specification.
Fresh ==
    /\ dao = FALSE
    /\ call = NoCall
    /\ pre = [db |-> NoFile, bak |-> NoFile]
    /\ out = [log |-> "none", books |-> <<>>]
    /\ history = NoHistory
    /\ commands = 0
    /\ writer = [w \in Writers |-> Idle]

Init ==
    /\ db_file = NoFile
    /\ backup_file = NoFile
    /\ Fresh

Called(c) ==
    /\ call' = c
    /\ pre' = [db |-> db_file, bak |-> backup_file]

\* dao = LibraryManagementSystem(TABLE_FILE), main.py:152: once per run of
\* the program, before the commands of the session.
Open ==
    LET r == init(db_file, backup_file)
    IN  /\ ~dao
        /\ Called([NoCall EXCEPT !.op = "open"])
        /\ db_file' = r.db
        /\ backup_file' = r.bak
        /\ dao' = TRUE
        /\ out' = [log |-> r.log, books |-> <<>>]
        /\ history' = [NoHistory EXCEPT !.migrations = r.migrations]
        /\ UNCHANGED <<commands, writer>>

Insert ==
    /\ dao
    /\ Len(db_file.rows) < MaxLines
    /\ \E title \in Titles, author \in Authors, year \in Years :
        LET r == insert(db_file, title, author, year)
        IN  /\ Called([NoCall EXCEPT !.op = "insert", !.title = title,
                                     !.author = author, !.year = year])
            /\ db_file' = r.db
            /\ out' = [log |-> r.log, books |-> <<>>]
            /\ history' = IF history.deleted THEN history
                          ELSE [history EXCEPT !.inserted =
                                   Append(@, <<title, author, year>>)]
    /\ UNCHANGED <<backup_file, dao, commands, writer>>

Delete ==
    /\ dao
    /\ \E book_id \in Ids :
        LET r == delete(db_file, book_id)
        IN  /\ Called([NoCall EXCEPT !.op = "delete", !.book_id = book_id])
            /\ db_file' = r.db
            /\ out' = [log |-> r.log, books |-> <<>>]
    /\ history' = [NoHistory EXCEPT !.deleted = TRUE, !.modified = TRUE]
    /\ UNCHANGED <<backup_file, dao, commands, writer>>

Modify ==
    /\ dao
    /\ \E book_id \in Ids, status \in Statuses :
        LET r == modify(db_file, book_id, status)
        IN  /\ Called([NoCall EXCEPT !.op = "modify", !.book_id = book_id,
                                     !.status = status])
            /\ db_file' = r.db
            /\ out' = [log |-> r.log, books |-> <<>>]
    /\ history' = [history EXCEPT !.modified = TRUE]
    /\ UNCHANGED <<backup_file, dao, commands, writer>>

SelectAll ==
    /\ dao
    /\ Called([NoCall EXCEPT !.op = "select_all"])
    /\ out' = select_all(db_file)
    /\ UNCHANGED <<db_file, backup_file, dao, history, commands, writer>>

Select ==
    /\ dao
    /\ \E filters \in FilterMaps :
        /\ Called([NoCall EXCEPT !.op = "select", !.filters = filters])
        /\ out' = select(db_file, filters)
    /\ UNCHANGED <<db_file, backup_file, dao, history, commands, writer>>

Next == Open \/ Insert \/ Delete \/ Modify \/ SelectAll \/ Select

Spec == Init /\ [][Next]_vars

-----------------------------------------------------------------------------
(* Opening an existing table: legacy layouts and failing file operations *)

\* The commands run after Open in SpecMig.
MaxCommands == 1

\* Two books of an older table, by field name; "note" is a column the
\* current schema does not have.
Book(n) ==
    [f \in Range(TABLE_FIELDS) \cup { <<"n","o","t","e">> } |->
        CASE f = <<"i","d">>                     -> str(n)
          [] f = <<"t","i","t","l","e">>         -> IF n = 1 THEN <<"W">> ELSE <<"d">>
          [] f = <<"a","u","t","h","o","r">>     -> IF n = 1 THEN <<"T">> ELSE <<"h">>
          [] f = <<"y","e","a","r">>             -> str(n)
          [] f = <<"s","t","a","t","u","s">>     -> BOOKS_STATUSES[n]
          [] OTHER                               -> << "n", digits[n + 1] >>]

\* Headers found in existing files: the current one, one without the status
\* column, one in another order, one with an unknown column.
Headers ==
    { TABLE_FIELDS,
      << <<"i","d">>, <<"t","i","t","l","e">>, <<"a","u","t","h","o","r">>,
         <<"y","e","a","r">> >>,
      << <<"i","d">>, <<"a","u","t","h","o","r">>, <<"t","i","t","l","e">>,
         <<"y","e","a","r">>, <<"s","t","a","t","u","s">> >>,
      << <<"t","i","t","l","e">>, <<"n","o","t","e">>, <<"i","d">>,
         <<"s","t","a","t","u","s">> >> }

\* A table file with the header and its first n books, every row of the
\* header's arity.
TableFile(header, n) ==
    File(<< header >> \o
         [k \in 1..n |-> [j \in DOMAIN header |-> Book(k)[header[j]]]])

\* What the path holds when the program starts: nothing, an empty file, or
\* a table in one of the layouts.
ExistingFiles ==
    { NoFile, File(<<>>) }
        \cup { TableFile(h, n) : h \in Headers, n \in {0, 1, 2} }

\* The backup path: nothing, or the backup an earlier migration left.
ExistingBackups ==
    { NoFile,
      File(<< TABLE_FIELDS,
              << <<"7">>, <<"o","l","d">>, <<"T">>, <<"1">>, BOOKS_STATUSES[1] >> >>) }

\* The file operations of a migration that fail in one Open.
OpenFaults ==
    { {}, {"backup"}, {"staging"}, {"move"},
      {"backup", "staging"}, {"backup", "move"} }

\* The file operations of a rewrite that fail in one Delete or Modify.
RewriteFaults == { {}, {"staging"}, {"move"} }

InitMig ==
    /\ db_file \in ExistingFiles
    /\ backup_file \in ExistingBackups
    /\ Fresh

MigOpen ==
    /\ ~dao
    /\ \E faults \in OpenFaults :
        LET r == init_with(db_file, backup_file, faults)
        IN  /\ Called([NoCall EXCEPT !.op = "open", !.faults = faults])
            /\ db_file' = r.db
            /\ backup_file' = r.bak
            /\ out' = [log |-> r.log, books |-> <<>>]
            /\ history' = [NoHistory EXCEPT !.migrations = r.migrations]
    /\ dao' = TRUE
    /\ UNCHANGED <<commands, writer>>

MigInsert ==
    /\ dao
    /\ commands < MaxCommands
    /\ \E title \in Titles, author \in Authors, year \in Years :
        LET r == insert(db_file, title, author, year)
        IN  /\ Called([NoCall EXCEPT !.op = "insert", !.title = title,
                                     !.author = author, !.year = year])
            /\ db_file' = r.db
            /\ out' = [log |-> r.log, books |-> <<>>]
    /\ commands' = commands + 1
    /\ UNCHANGED <<backup_file, dao, history, writer>>

MigDelete ==
    /\ dao
    /\ commands < MaxCommands
    /\ \E book_id \in Ids, faults \in RewriteFaults :
        LET r == delete_with(db_file, book_id, faults)
        IN  /\ Called([NoCall EXCEPT !.op = "delete", !.book_id = book_id,
                                     !.faults = faults])
            /\ db_file' = r.db
            /\ out' = [log |-> r.log, books |-> <<>>]
    /\ commands' = commands + 1
    /\ UNCHANGED <<backup_file, dao, history, writer>>

MigModify ==
    /\ dao
    /\ commands < MaxCommands
    /\ \E book_id \in Ids, status \in Statuses, faults \in RewriteFaults :
        LET r == modify_with(db_file, book_id, status, faults)
        IN  /\ Called([NoCall EXCEPT !.op = "modify", !.book_id = book_id,
                                     !.status = status, !.faults = faults])
            /\ db_file' = r.db
            /\ out' = [log |-> r.log, books |-> <<>>]
    /\ commands' = commands + 1
    /\ UNCHANGED <<backup_file, dao, history, writer>>

NextMig == MigOpen \/ MigInsert \/ MigDelete \/ MigModify

SpecMig == InitMig /\ [][NextMig]_vars

\* A later run of the program opens the table file the session left.
MigReopen ==
    /\ dao
    /\ commands < MaxCommands
    /\ \E faults \in OpenFaults :
        LET r == init_with(db_file, backup_file, faults)
        IN  /\ Called([NoCall EXCEPT !.op = "open", !.faults = faults])
            /\ db_file' = r.db
            /\ backup_file' = r.bak
            /\ out' = [log |-> r.log, books |-> <<>>]
            /\ history' = [NoHistory EXCEPT !.migrations = r.migrations]
    /\ commands' = commands + 1
    /\ UNCHANGED <<dao, writer>>

MigSelectAll ==
    /\ dao
    /\ commands < MaxCommands
    /\ Called([NoCall EXCEPT !.op = "select_all"])
    /\ out' = select_all(db_file)
    /\ commands' = commands + 1
    /\ UNCHANGED <<db_file, backup_file, dao, history, writer>>

MigSelect ==
    /\ dao
    /\ commands < MaxCommands
    /\ \E filters \in FilterMaps :
        /\ Called([NoCall EXCEPT !.op = "select", !.filters = filters])
        /\ out' = select(db_file, filters)
    /\ commands' = commands + 1
    /\ UNCHANGED <<db_file, backup_file, dao, history, writer>>

NextReopen ==
    \/ MigOpen
    \/ MigInsert
    \/ MigDelete
    \/ MigModify
    \/ MigSelectAll
    \/ MigSelect
    \/ MigReopen

\* SpecMig with the reads and with a second Open of the same table file.
SpecReopen == InitMig /\ [][NextReopen]_vars

-----------------------------------------------------------------------------
(* The rewrites step by step: processes that can be killed or interleave *)

\* A table whose second row lacks the columns its header names.
RaggedFile ==
    File(<< << <<"i","d">>, <<"a","u","t","h","o","r">>, <<"t","i","t","l","e">> >>,
            << <<"1">>, <<"T">>, <<"W">> >>,
            << <<"2">> >> >>)

\* The table files the processes start from.
StepFiles ==
    { TableFile(TABLE_FIELDS, 1), TableFile(TABLE_FIELDS, 2),
      TableFile(<< <<"i","d">>, <<"a","u","t","h","o","r">>,
                   <<"t","i","t","l","e">>, <<"y","e","a","r">>,
                   <<"s","t","a","t","u","s">> >>, 2),
      RaggedFile }

InitSteps ==
    /\ db_file \in StepFiles
    /\ backup_file = NoFile
    /\ Fresh

\* The rows that reading row number k puts into the temporary file, were
\* every row copied as it is.
staged_rows_unchanged(c, old_header, k, row) == << row >>

\* The rows that reading row number k puts into the temporary file: migrate
\* skips the header and writes TABLE_FIELDS, then one rebuilt row per row;
\* delete leaves out the rows of the identifier; modify rewrites the status
\* of the rows of the identifier.
staged_rows(c, old_header, k, row) ==
    LET id_field_index == index(TABLE_FIELDS, <<"i","d">>)
        status_field_index == index(TABLE_FIELDS, <<"s","t","a","t","u","s">>)
    IN  CASE c.op = "open" ->
               IF k = 1 THEN << TABLE_FIELDS >>
                        ELSE << migrate_row(row, old_header) >>
          [] c.op = "delete" ->
               IF row[id_field_index] = c.book_id THEN << >> ELSE << row >>
          [] c.op = "modify" ->
               IF row[id_field_index] = c.book_id
               THEN << [row EXCEPT ![status_field_index] = lower(strip(c.status))] >>
               ELSE << row >>

\* The row raises IndexError in the loop.
staged_raises(c, old_header, k, row) ==
    LET id_field_index == index(TABLE_FIELDS, <<"i","d">>)
        status_field_index == index(TABLE_FIELDS, <<"s","t","a","t","u","s">>)
    IN  CASE c.op = "open" -> k > 1 /\ migrate_row_raises(row, old_header)
          [] c.op = "delete" -> Len(row) < id_field_index
          [] c.op = "modify" ->
               \/ Len(row) < id_field_index
               \/ row[id_field_index] = c.book_id /\ Len(row) < status_field_index

\* writer.writerow(row) on the temporary file.
write_staging(db, temp, rows) ==
    [db |-> db, temp |-> File(temp.rows \o rows)]

\* move(temp_file.name, self.db_file) when os.rename succeeds: the table
\* file becomes the temporary file, whatever it held.
move(db, temp) == temp

\* The temporary file is in tempfile.gettempdir().  When that directory is
\* on another filesystem than the table file, os.rename raises and
\* shutil.move copies instead: the table file is opened for writing, which
\* empties it, and the content of the temporary file is written into it.
move_opens(db) == File(<< >>)

\* A process starts: the constructor reads the header of the table file.
Start(w) ==
    /\ writer[w].pc \in {"idle", "killed"}
    /\ db_file.exists /\ Len(db_file.rows) >= 1
    /\ writer' = [writer EXCEPT ![w] =
          [Idle EXCEPT
             !.temp   = writer[w].temp,
             !.start  = db_file,
             !.header = db_file.rows[1],
             !.call   = [NoCall EXCEPT !.op = "open"],
             !.log    = IF db_file.rows[1] # TABLE_FIELDS
                        THEN "none" ELSE "no migration required",
             !.pc     = IF db_file.rows[1] # TABLE_FIELDS
                        THEN "backup" ELSE "ready"]]
    /\ UNCHANGED <<db_file, backup_file, dao, call, pre, out, history, commands>>

\* migrate: self.create_backup()
Backup(w) ==
    /\ writer[w].pc = "backup"
    /\ backup_file' = create_backup(db_file, backup_file)
    /\ writer' = [writer EXCEPT ![w].pc = "staging"]
    /\ UNCHANGED <<db_file, dao, call, pre, out, history, commands>>

\* NamedTemporaryFile(delete=False), then open(self.db_file)
CreateStaging(w) ==
    /\ writer[w].pc = "staging"
    /\ db_file.exists
    /\ writer' = [writer EXCEPT ![w].temp = File(<< >>),
                                ![w].seen = db_file,
                                ![w].pos  = 0,
                                ![w].pc   = "copy"]
    /\ UNCHANGED <<db_file, backup_file, dao, call, pre, out, history, commands>>

\* One turn of the loop over the reader.
CopyRow(w) ==
    LET me  == writer[w]
        k   == me.pos + 1
        row == me.seen.rows[k]
    IN  /\ me.pc = "copy"
        /\ me.pos < Len(me.seen.rows)
        /\ IF staged_raises(me.call, me.header, k, row)
           THEN /\ writer' = [writer EXCEPT
                      ![w].pc  = IF me.call.op = "open" THEN "restore" ELSE "done",
                      ![w].log = IF me.call.op = "open" THEN "migration failed"
                                                        ELSE "error"]
                /\ UNCHANGED db_file
           ELSE LET r == write_staging(db_file, me.temp,
                                       staged_rows(me.call, me.header, k, row))
                IN  /\ db_file' = r.db
                    /\ writer' = [writer EXCEPT ![w].temp = r.temp, ![w].pos = k]
        /\ UNCHANGED <<backup_file, dao, call, pre, out, history, commands>>

\* The loop is over: move(temp_file.name, self.db_file)
Replace(w) ==
    LET me == writer[w]
    IN  /\ me.pc = "copy"
        /\ me.pos = Len(me.seen.rows)
        /\ db_file' = move(db_file, me.temp)
        /\ writer' = [writer EXCEPT
              ![w].temp = NoFile,
              ![w].pc   = IF me.call.op = "open" THEN "ready" ELSE "done",
              ![w].log  = IF me.call.op = "open" THEN "migration done"
                                                 ELSE "replaced"]
        /\ UNCHANGED <<backup_file, dao, call, pre, out, history, commands>>

\* The loop is over and os.rename cannot be used: move opens the table file
\* for writing.
MoveOpen(w) ==
    LET me == writer[w]
    IN  /\ me.pc = "copy"
        /\ me.pos = Len(me.seen.rows)
        /\ db_file' = move_opens(db_file)
        /\ writer' = [writer EXCEPT ![w].pc = "moving"]
        /\ UNCHANGED <<backup_file, dao, call, pre, out, history, commands>>

\* move copies the temporary file into the table file and unlinks it.
MoveCopy(w) ==
    LET me == writer[w]
    IN  /\ me.pc = "moving"
        /\ db_file' = move(db_file, me.temp)
        /\ writer' = [writer EXCEPT
              ![w].temp = NoFile,
              ![w].pc   = IF me.call.op = "open" THEN "ready" ELSE "done",
              ![w].log  = IF me.call.op = "open" THEN "migration done"
                                                 ELSE "replaced"]
        /\ UNCHANGED <<backup_file, dao, call, pre, out, history, commands>>

\* migrate, except branch: self.restore_backup()
Restore(w) ==
    /\ writer[w].pc = "restore"
    /\ db_file' = restore_backup(db_file, backup_file)
    /\ writer' = [writer EXCEPT ![w].pc = "ready"]
    /\ UNCHANGED <<backup_file, dao, call, pre, out, history, commands>>

\* The command of the process is delete.
BeginDelete(w) ==
    /\ writer[w].pc = "ready"
    /\ \E book_id \in Ids :
          writer' = [writer EXCEPT
             ![w].call  = [NoCall EXCEPT !.op = "delete", !.book_id = book_id],
             ![w].start = db_file,
             ![w].log   = "none",
             ![w].pc    = "staging"]
    /\ UNCHANGED <<db_file, backup_file, dao, call, pre, out, history, commands>>

\* The command of the process is modify; an unknown status ends it.
BeginModify(w) ==
    /\ writer[w].pc = "ready"
    /\ \E book_id \in Ids, status \in Statuses :
          LET valid == lower(strip(status)) \in Range(BOOKS_STATUSES)
          IN  writer' = [writer EXCEPT
                 ![w].call  = [NoCall EXCEPT !.op = "modify",
                                             !.book_id = book_id,
                                             !.status = status],
                 ![w].start = db_file,
                 ![w].log   = IF valid THEN "none" ELSE "status not available",
                 ![w].pc    = IF valid THEN "staging" ELSE "done"]
    /\ UNCHANGED <<db_file, backup_file, dao, call, pre, out, history, commands>>

\* The command of the process is insert: book_id = count_rows(self.db_file)
BeginInsert(w) ==
    /\ writer[w].pc = "ready"
    /\ db_file.exists
    /\ Len(db_file.rows) < MaxLines
    /\ \E title \in Titles, author \in Authors, year \in Years :
          writer' = [writer EXCEPT
             ![w].call  = [NoCall EXCEPT !.op = "insert", !.title = title,
                                         !.author = author, !.year = year],
             ![w].start = db_file,
             ![w].pos   = count_rows(db_file),
             ![w].log   = "none",
             ![w].pc    = "append"]
    /\ UNCHANGED <<db_file, backup_file, dao, call, pre, out, history, commands>>

\* insert: open(self.db_file, mode="a"), writer.writerow(new_row)
AppendRow(w) ==
    LET me == writer[w]
    IN  /\ me.pc = "append"
        /\ db_file' = File(db_file.rows \o
              << new_row(me.pos, me.call.title, me.call.author, me.call.year) >>)
        /\ writer' = [writer EXCEPT ![w].pc = "done", ![w].log = "inserted"]
        /\ UNCHANGED <<backup_file, dao, call, pre, out, history, commands>>

\* The process is killed in the middle of a command; what it wrote stays.
Kill(w) ==
    /\ writer[w].pc \in {"backup", "staging", "copy", "moving", "restore", "append"}
    /\ writer' = [writer EXCEPT ![w].pc = "killed"]
    /\ UNCHANGED <<db_file, backup_file, dao, call, pre, out, history, commands>>

\* One process, which may be killed and started again.
NextSteps ==
    \/ Start("p")
    \/ Backup("p")
    \/ CreateStaging("p")
    \/ CopyRow("p")
    \/ Replace("p")
    \/ MoveOpen("p")
    \/ MoveCopy("p")
    \/ Restore("p")
    \/ BeginDelete("p")
    \/ BeginModify("p")
    \/ BeginInsert("p")
    \/ AppendRow("p")
    \/ Kill("p")

SpecSteps == InitSteps /\ [][NextSteps]_vars

\* Two processes on one table file, each running one command to its end.
NextWriters ==
    \E w \in Writers :
        \/ Start(w)
        \/ Backup(w)
        \/ CreateStaging(w)
        \/ CopyRow(w)
        \/ Replace(w)
        \/ MoveOpen(w)
        \/ MoveCopy(w)
        \/ Restore(w)
        \/ BeginDelete(w)
        \/ BeginModify(w)
        \/ BeginInsert(w)
        \/ AppendRow(w)

SpecWriters == InitSteps /\ [][NextWriters]_vars

-----------------------------------------------------------------------------
(* Properties *)

id_col == index(TABLE_FIELDS, <<"i","d">>)
status_col == index(TABLE_FIELDS, <<"s","t","a","t","u","s">>)

\* The first line of the file is the schema header.
HeaderIntact(f) == f.exists /\ Len(f.rows) >= 1 /\ f.rows[1] = TABLE_FIELDS

\* Some data row of the file carries the identifier.
HasDataRow(f, book_id) ==
    \E i \in DOMAIN DataRows(f) : DataRows(f)[i][id_col] = book_id

\* s without its k-th element.
Without(s, k) == SubSeq(s, 1, k - 1) \o SubSeq(s, k + 1, Len(s))

\* The status of the last call after strip() and lower().
Normalized == lower(strip(call.status))

\* C1: Delete(id), called when some data row has the identifier id, removes
\* exactly one row: there is one data row less, and the data rows left are
\* the prior ones without the matching one, in their order.  Stated for the
\* tables whose first line is the schema header.
C1_DeleteRemovesExactlyOne ==
    ( /\ call.op = "delete"
      /\ HeaderIntact(pre.db)
      /\ HasDataRow(pre.db, call.book_id) )
    => /\ Len(DataRows(db_file)) = Len(DataRows(pre.db)) - 1
       /\ \E k \in DOMAIN DataRows(pre.db) :
             /\ DataRows(pre.db)[k][id_col] = call.book_id
             /\ DataRows(db_file) = Without(DataRows(pre.db), k)

\* C2: the identifier Insert assigns differs from the identifier of every
\* data row already in the table, so no two data rows share an identifier.
\* Stated for the tables whose first line is the schema header.
C2_InsertIdentifierIsNew ==
    ( /\ call.op = "insert"
      /\ out.log = "inserted"
      /\ HeaderIntact(pre.db) )
    => /\ \A i \in DOMAIN DataRows(pre.db) :
             DataRows(pre.db)[i][id_col] # db_file.rows[Len(db_file.rows)][id_col]
       /\ \A i, j \in DOMAIN DataRows(db_file) :
             i # j => DataRows(db_file)[i][id_col] # DataRows(db_file)[j][id_col]

\* The row has, in the column of every filterable filter, the filter's
\* value after lowercasing both.
Matches(row, filters) ==
    \A k \in DOMAIN filters :
        filters[k].key \in Range(USERS_FILTERS)
        => lower(row[index(TABLE_FIELDS, filters[k].key)]) = lower(filters[k].value)

\* C3: Select with at least one filterable filter returns exactly the data
\* rows, in file order, that match every filter (logical AND).  Stated for
\* the tables whose first line is the schema header.
C3_SelectIsConjunction ==
    ( /\ call.op = "select"
      /\ HeaderIntact(db_file)
      /\ actual_filters(call.filters) # <<>> )
    => out.books = SelectSeq(DataRows(db_file),
                             LAMBDA row : Matches(row, call.filters))

\* C4: every row Select({f: v, g: w}) returns is also returned by
\* Select({f: v}), also when Select({f: v}) returns no rows.
C4_AddingFilterNeverWidens ==
    ( /\ call.op = "select"
      /\ HeaderIntact(db_file)
      /\ Len(call.filters) = 2
      /\ actual_filters(call.filters) = call.filters )
    => Range(out.books) \subseteq
           Range(select(db_file, << call.filters[1] >>).books)

\* C5: Select with an empty filter mapping returns all data rows, the same
\* rows as SelectAll.
C5_EmptyFiltersReturnAll ==
    ( call.op = "select" /\ call.filters = <<>> )
    => out.books = select_all(db_file).books

\* C6: Modify(id, s), for s valid after trimming and lowercasing and id the
\* identifier of a data row, succeeds and leaves the normalized form of s in
\* the status column of every data row whose identifier is id, which the
\* next SelectAll shows.
C6_ModifySetsNormalizedStatus ==
    ( /\ call.op = "modify"
      /\ Normalized \in Range(BOOKS_STATUSES)
      /\ HasDataRow(pre.db, call.book_id) )
    => /\ out.log = "modified"
       /\ Len(db_file.rows) = Len(pre.db.rows)
       /\ \A i \in DOMAIN DataRows(pre.db) :
             DataRows(pre.db)[i][id_col] = call.book_id
             => /\ DataRows(db_file)[i][id_col] = call.book_id
                /\ DataRows(db_file)[i][status_col] = Normalized
                /\ select_all(db_file).books[i][status_col] = Normalized

\* Modify has rewritten the status of a data row from a status that was
\* given padded and capitalized.
C6_Witness ==
    /\ call.op = "modify"
    /\ call.status # Normalized
    /\ Normalized \in Range(BOOKS_STATUSES)
    /\ HasDataRow(pre.db, call.book_id)
    /\ db_file # pre.db

\* C7: Modify(id, s) with a valid status keeps the header line, the row
\* count and order, every row that does not match id, and the columns other
\* than status of the row that does.
C7_ModifyChangesOnlyStatus ==
    ( /\ call.op = "modify"
      /\ Normalized \in Range(BOOKS_STATUSES)
      /\ Len(pre.db.rows) >= 1 )
    => /\ Len(db_file.rows) = Len(pre.db.rows)
       /\ db_file.rows[1] = pre.db.rows[1]
       /\ \A i \in DOMAIN DataRows(pre.db) :
             /\ Len(DataRows(db_file)[i]) = Len(DataRows(pre.db)[i])
             /\ \A c \in DOMAIN DataRows(pre.db)[i] :
                   ( c # status_col
                     \/ DataRows(pre.db)[i][id_col] # call.book_id )
                   => DataRows(db_file)[i][c] = DataRows(pre.db)[i][c]

\* C8: Modify(id, s) with s not valid after trimming and lowercasing leaves
\* the table file and the backup file as they were, whether or not id exists.
C8_InvalidStatusTouchesNothing ==
    ( /\ call.op = "modify"
      /\ Normalized \notin Range(BOOKS_STATUSES) )
    => /\ db_file = pre.db
       /\ backup_file = pre.bak
       /\ out.log = "status not available"

\* Modify was called with an unknown status for the identifier of a data row.
C8_Witness ==
    /\ call.op = "modify"
    /\ Normalized \notin Range(BOOKS_STATUSES)
    /\ HasDataRow(pre.db, call.book_id)

\* C9: Delete(id) for an id that matches no data row reports not-found and
\* leaves the content of the table file, header included, as it was.
C9_DeleteOfAbsentIdIsNoOp ==
    ( /\ call.op = "delete"
      /\ ~HasDataRow(pre.db, call.book_id) )
    => /\ out.log = "not found"
       /\ db_file = pre.db

\* C10: Insert(title, author, year) appends exactly one row, with the given
\* title, author and year, the first entry of BOOKS_STATUSES as status and
\* every other column but the identifier empty; the lines before it are
\* unchanged and it is the last row of the next SelectAll.
C10_InsertAppendsOneRow ==
    ( call.op = "insert" /\ pre.db.exists )
    => LET n    == Len(db_file.rows)
           row  == db_file.rows[n]
           seen == select_all(db_file).books
       IN  /\ out.log = "inserted"
           /\ n = Len(pre.db.rows) + 1
           /\ SubSeq(db_file.rows, 1, n - 1) = pre.db.rows
           /\ Len(row) = Len(TABLE_FIELDS)
           /\ \A c \in DOMAIN TABLE_FIELDS :
                 CASE TABLE_FIELDS[c] = <<"i","d">>                 -> TRUE
                   [] TABLE_FIELDS[c] = <<"t","i","t","l","e">>     -> row[c] = call.title
                   [] TABLE_FIELDS[c] = <<"a","u","t","h","o","r">> -> row[c] = call.author
                   [] TABLE_FIELDS[c] = <<"y","e","a","r">>         -> row[c] = call.year
                   [] TABLE_FIELDS[c] = <<"s","t","a","t","u","s">> -> row[c] = BOOKS_STATUSES[1]
                   [] OTHER                                         -> row[c] = <<>>
           /\ seen # <<>>
           /\ seen[Len(seen)] = row

C18_HeaderInvariant == dao => HeaderIntact(db_file)

\* C20: the identifier Insert writes is the number of lines of the table
\* file at the call, header included; after Open on a fresh path, n Inserts
\* and no Delete, the data rows carry the identifiers 1..n in file order.
C20_IdentifierIsLineCount ==
    /\ ( call.op = "insert" /\ out.log = "inserted" )
       => db_file.rows[Len(db_file.rows)][id_col] = str(Len(pre.db.rows))
    /\ ( dao /\ ~history.deleted )
       => /\ Len(DataRows(db_file)) = Len(history.inserted)
          /\ \A i \in DOMAIN DataRows(db_file) :
                DataRows(db_file)[i][id_col] = str(i)

\* Insert was called for the second time, with no Delete before it.
C20_Witness ==
    /\ call.op = "insert"
    /\ ~history.deleted
    /\ Len(history.inserted) = 2
    /\ DataRows(db_file)[2][id_col] = <<"2">>

\* The header line of the file is there and is not the schema field list.
HeaderDiffers(f) == f.exists /\ Len(f.rows) >= 1 /\ f.rows[1] # TABLE_FIELDS

C12_MigrationMapsByPosition ==
    ( call.op = "open" /\ out.log = "migration done" )
    => LET old_header == pre.db.rows[1]
           old == DataRows(pre.db)
           new == DataRows(db_file)
       IN  /\ Len(new) = Len(old)
           /\ \A k \in DOMAIN old :
                 /\ Len(new[k]) = Len(TABLE_FIELDS)
                 /\ \A c \in DOMAIN TABLE_FIELDS :
                       IF \E j \in DOMAIN old_header : old_header[j] = TABLE_FIELDS[c]
                       THEN \E j \in DOMAIN old_header :
                               /\ old_header[j] = TABLE_FIELDS[c]
                               /\ \A i \in 1..(j - 1) : old_header[i] # TABLE_FIELDS[c]
                               /\ new[k][c] = old[k][j]
                       ELSE new[k][c] = <<>>

\* A table of two rows whose header has an unknown column, lacks schema
\* fields and is in another order was migrated.
C12_Witness ==
    /\ call.op = "open"
    /\ out.log = "migration done"
    /\ <<"n","o","t","e">> \in Range(pre.db.rows[1])
    /\ Len(DataRows(db_file)) = 2
    /\ DataRows(db_file)[2][id_col] = <<"2">>

\* C13: when a migration fails after the backup attempt, the table file
\* holds, after the restore attempt, its complete content of before the
\* migration, also when the backup itself failed while an older backup
\* file exists.
C13_FailedMigrationKeepsContent ==
    ( call.op = "open" /\ out.log = "migration failed" )
    => db_file = pre.db

\* C16: Open on a path with no file creates the table file with the schema
\* header as its only line, and creates or changes no backup file.
C16_OpenCreatesHeaderOnly ==
    ( call.op = "open" /\ ~pre.db.exists )
    => /\ db_file.exists
       /\ Len(db_file.rows) = 1
       /\ db_file.rows[1] = TABLE_FIELDS
       /\ backup_file = pre.bak

\* Open has run on a path with no file, beside an older backup file.
C16_Witness ==
    /\ call.op = "open"
    /\ ~pre.db.exists
    /\ pre.bak.exists
    /\ db_file.exists

\* C19: starting from no file or from a table file whose rows all have the
\* header's arity, after Open and any Insert, Delete and Modify, with the
\* backup, staging and move steps allowed to fail, every row of the table
\* file has as many values as its header line.
C19_ArityInvariant ==
    ( dao /\ db_file.exists /\ Len(db_file.rows) >= 1 )
    => \A i \in DOMAIN db_file.rows :
          Len(db_file.rows[i]) = Len(db_file.rows[1])

\* What the command of a process makes of the table file it started from.
Result(me) ==
    CASE me.call.op = "delete" -> delete(me.start, me.call.book_id).db
      [] me.call.op = "modify" -> modify(me.start, me.call.book_id, me.call.status).db
      [] me.call.op = "open"   -> migrate(me.start, NoFile, me.header).db
      [] OTHER                 -> me.start

\* C14: with one process running delete, modify or migrate, the table file
\* holds the complete content of before the operation at every step before
\* the move, and the complete result of the operation after it; at any
\* point where the process may be killed or a reader may read, the move
\* included, the table file is one of the two, never a partial file.
C14_TableChangesOnlyAtReplace ==
    LET me == writer["p"]
    IN  me.call.op \in {"open", "delete", "modify"}
        => /\ me.pc \in {"backup", "staging", "copy", "restore"}
              => db_file = me.start
           /\ me.log \in {"replaced", "migration done"}
              => db_file = Result(me)
           /\ me.pc \in {"moving", "killed"}
              => db_file \in {me.start, Result(me)}

\* The move of writer w over the table file.
Replaced(w) ==
    /\ writer[w].pc \in {"copy", "moving"}
    /\ writer'[w].pc = "done"
    /\ writer'[w].log = "replaced"

\* C15: last rename wins.  When a writer moves its temporary file over the
\* table file, the table file becomes the writer's operation applied to the
\* content that writer read, whatever another writer did to the table file
\* in between.
C15_LastRenameWins ==
    [][ \A w \in Writers :
          Replaced(w) =>
             LET c == writer[w].call
             IN  db_file' = IF c.op = "delete"
                            THEN delete(writer[w].seen, c.book_id).db
                            ELSE modify(writer[w].seen, c.book_id, c.status).db
      ]_vars

\* Both writers have completed without error, one a delete of book 1 and
\* the other a modify of book 2, over the same content read; the table file
\* still holds book 1 and is the result of neither serial order.
C15_Witness ==
    LET p  == writer["p"]
        q  == writer["q"]
        s0 == TableFile(TABLE_FIELDS, 2)
    IN  /\ p.pc = "done" /\ p.log = "replaced"
        /\ q.pc = "done" /\ q.log = "replaced"
        /\ p.call.op = "delete" /\ p.call.book_id = <<"1">>
        /\ q.call.op = "modify" /\ q.call.book_id = <<"2">>
        /\ p.seen = s0 /\ q.seen = s0
        /\ HasDataRow(db_file, <<"1">>)
        /\ db_file # modify(delete(s0, <<"1">>).db, <<"2">>, q.call.status).db
        /\ db_file # delete(modify(s0, <<"2">>, q.call.status).db, <<"1">>).db
        /\ db_file # s0

\* C21: Open on an existing file whose header is the schema field list
\* does not call migrate and leaves the table file and the backup file as
\* they were; every Open that generated the file, found no migration
\* required or migrated it leaves such a header, so an Open after it
\* changes nothing.
C21_OpenOnCurrentHeaderIsNoOp ==
    /\ ( call.op = "open" /\ HeaderIntact(pre.db) )
       => /\ history.migrations = 0
          /\ out.log = "no migration required"
          /\ db_file = pre.db
          /\ backup_file = pre.bak
    /\ ( call.op = "open"
         /\ out.log \in {"generated", "no migration required", "migration done"} )
       => HeaderIntact(db_file)

\* A second Open of a table of two rows that the first Open migrated: the
\* backup file holds the old layout, the table file the schema header.
C21_Witness ==
    /\ call.op = "open"
    /\ commands = 1
    /\ HeaderIntact(pre.db)
    /\ Len(DataRows(pre.db)) = 2
    /\ HeaderDiffers(pre.bak)
    /\ db_file = pre.db
    /\ backup_file = pre.bak

\* C22: when the backup copy of a migration succeeds, the backup file is
\* afterwards the complete table file of before the migration, whatever
\* backup there was; insert, delete, modify, select and select_all leave
\* the backup file as it was, absent if it was absent.
C22_BackupIsPreMigrationContent ==
    /\ ( call.op = "open" /\ history.migrations = 1
         /\ "backup" \notin call.faults )
       => backup_file = pre.db
    /\ ( call.op \in {"insert", "delete", "modify", "select", "select_all"} )
       => backup_file = pre.bak

\* A migration whose backup copy succeeded over an older, different backup.
C22_Witness ==
    /\ call.op = "open"
    /\ history.migrations = 1
    /\ "backup" \notin call.faults
    /\ pre.bak.exists
    /\ pre.bak # pre.db
    /\ Len(DataRows(pre.db)) = 2
    /\ backup_file = pre.db

====
